---- MODULE Spec2Model ----
(***************************************************************************)
(* Container execution engine of n8n-nodes-claude-agent.                   *)
(*                                                                         *)
(* Three entry points are modelled, selected by `variant`:                 *)
(*   "legacy" : RunContainer.execute + runContainer     (src/unnamed/part_006) *)
(*   "node"   : RunContainer.execute                    (src/unnamed/part_005) *)
(*   "helper" : executeContainerWithBinary              (src/unnamed/part_003) *)
(* The legacy entry point talks to the engine itself (runContainer); the   *)
(* other two delegate to executeContainer of ContainerHelpers.             *)
(* The resource estimate, the socket resolution and the credential          *)
(* handling of ClaudeCodeAgent.execute (src/unnamed/part_001) have          *)
(* specifications of their own, and so have the log demultiplexer           *)
(* (DemuxSpec, FramingSpec) and the one-item execution under a responsive   *)
(* engine (LiveSpec).                                                       *)
(***************************************************************************)
EXTENDS Integers, Sequences, FiniteSets, TLC

VARIABLES
    variant,          \* which entry point runs
    continueOnFail,   \* this.continueOnFail()
    nItems,           \* items.length
    itemIndex,        \* loop counter / itemIndex argument
    item,             \* parameters read for the current item
    pc,               \* control position
    error,            \* the error caught / being propagated for the current item
    returnData,       \* INodeExecutionData[] built so far
    outcome,          \* how the entry point settled: "running", "returned", "thrown"
    thrown,           \* the NodeOperationError that left the entry point
    tempDir,          \* let tempDir: string | null  (0 = null)
    tempDirectories,  \* const tempDirectories: string[]
    fsDirs,           \* temp directories present on the filesystem
    volumes,          \* containerConfig.volumes being built for the current item
    configLimits,     \* containerConfig.memory and .cpuQuota (NoLimits = unset)
    nextDir,          \* source of fresh mkdtemp names
    releaseLog,       \* directories handed to cleanupTempDirectory, in call order
    pending,          \* positions of tempDirectories whose cleanup has not settled
    acquiredBy,       \* directory -> item index that created it
    rmFailed,         \* directories whose recursive removal raised an error
    containerId,      \* createRes.Id of the current execution (0 = none)
    containers,       \* containers present in the engine
    nextContainer,    \* source of fresh container ids
    calls,            \* engine calls issued by the current execution, in order
    responses,        \* responses[i] answers calls[i]
    inflight,         \* engine call awaiting its response ("none" if none)
    lastCallItem,     \* item index of the latest engine call (-1 = none yet)
    created,          \* number of containers created by the current execution
    statusCode,       \* waitRes.StatusCode (-1 = not received)
    frames,           \* the frames the engine wrote to the log stream
    logsBuffer,       \* raw bytes returned by the logs endpoint
    offset,           \* demultiplexer position
    stdout,           \* decoded stdout bytes
    stderr,           \* decoded stderr bytes
    hasOutput,        \* result.hasOutput of executeContainer
    fileSizes,        \* preparedBinary.fileSizes handed to the resource estimate
    resourceLimits,   \* the limits calculateResourceLimits returned for them
    socketCandidate,  \* the socketPath parameter
    existingSockets,  \* paths at which fs.existsSync finds a socket
    platform,         \* os.platform()
    socketPath,       \* the resolved socket path (NoPath = not resolved yet)
    processEnv,       \* process.env: ANTHROPIC_API_KEY and ANTHROPIC_BASE_URL
    agentCreds,       \* ClaudeCodeAgent execution -> its anthropicApi credentials
    agentItems,       \* execution -> items.length
    agentPc,          \* execution -> position in ClaudeCodeAgent.execute
    agentItemIndex,   \* execution -> itemIndex of its loop
    agentData,        \* execution -> returnData, one entry per item
    queryEnv,         \* execution -> environment its running SDK query started under
    envWrites         \* the executions that wrote process.env, in order

cfgVars == <<variant, continueOnFail, nItems>>
loopVars == <<itemIndex, item>>
outVars == <<returnData, outcome, thrown>>
dirVars == <<tempDir, volumes, configLimits, tempDirectories, fsDirs, nextDir, releaseLog, pending, acquiredBy,
            rmFailed>>
engVars == <<containerId, containers, nextContainer, calls, responses, inflight,
            lastCallItem, created>>
logVars == <<frames, logsBuffer, offset, stdout, stderr, hasOutput>>
estVars == <<fileSizes, resourceLimits>>
\* State of RunContainer.execute, and state it never touches.
runVars == <<cfgVars, loopVars, pc, error, outVars, dirVars, engVars, statusCode, logVars>>
sockVars == <<socketCandidate, existingSockets, platform, socketPath>>
agentVars == <<processEnv, agentCreds, agentItems, agentPc, agentItemIndex, agentData,
              queryEnv, envWrites>>
outsideVars == <<estVars, sockVars, agentVars>>
vars == <<runVars, outsideVars>>

----------------------------------------------------------------------------
(* Bounds *)

MaxItems == 2
MaxFrames == 2
LongLen == 258
MaxMappings == 2

----------------------------------------------------------------------------
(* Values *)

NoError == [kind |-> "none", status |-> 0]

\* An engine response: a connection-level 'error' event, or an HTTP status.
ConnError == [err |-> TRUE, status |-> 0]
Responses == {ConnError} \cup {[err |-> FALSE, status |-> s] : s \in {200, 500}}
\* The create endpoint also answers 404 when the image is not present locally.
CreateResponses == Responses \cup {[err |-> FALSE, status |-> 404]}

ExitCodes == {0, 1}

\* Image references as character sequences.
Images == {<<>>, <<"a", "l", "p">>, <<"U", "p">>}

NoItem == [image |-> <<>>, binaryDataInput |-> FALSE, binaryDataOutput |-> FALSE,
           mappings |-> 0]

----------------------------------------------------------------------------
(* Log stream framing *)

RECURSIVE Concat(_)
Concat(ss) == IF ss = <<>> THEN <<>> ELSE Head(ss) \o Concat(Tail(ss))

\* Big-endian unsigned 32-bit encoding of n.
BE32(n) == << (n \div 16777216) % 256, (n \div 65536) % 256, (n \div 256) % 256, n % 256 >>

\* One frame: tag, three zero bytes, payload length, payload.
EncodeFrame(f) == <<f.tag, 0, 0, 0>> \o BE32(Len(f.payload)) \o f.payload

EncodeFrames(fs) == Concat([i \in 1..Len(fs) |-> EncodeFrame(fs[i])])

readUInt32LE(buf, at) ==
    buf[at + 4] * 16777216 + buf[at + 3] * 65536 + buf[at + 2] * 256 + buf[at + 1]

\* Buffer.readUInt32BE(at), `at` zero-based.
readUInt32BE(buf, at) ==
    buf[at + 1] * 16777216 + buf[at + 2] * 65536 + buf[at + 3] * 256 + buf[at + 4]

\* Buffer.slice(from, to), zero-based, end exclusive, clamped to the buffer.
slice(buf, from, to) ==
    LET hi == IF to > Len(buf) THEN Len(buf) ELSE to
    IN  IF from >= hi THEN <<>> ELSE SubSeq(buf, from + 1, hi)

LongPayload == [i \in 1..LongLen |-> i % 256]
Payloads == {<<>>, <<7>>, <<2, 1>>, LongPayload}
DataFrames == [tag : {1, 2}, payload : Payloads]

RECURSIVE SeqsUpTo(_, _)
SeqsUpTo(S, n) ==
    IF n = 0 THEN {<<>>}
    ELSE LET shorter == SeqsUpTo(S, n - 1)
         IN  shorter \cup {Append(s, x) : s \in {t \in shorter : Len(t) = n - 1}, x \in S}

\* The payloads of the frames carrying `tag`, concatenated in order.
PayloadsOf(fs, tag) ==
    Concat([i \in 1..Len(fs) |-> IF fs[i].tag = tag THEN fs[i].payload ELSE <<>>])

----------------------------------------------------------------------------
(* Initial state *)

Variants == {"legacy", "node", "helper"}

NoThrown == [itemIndex |-> -1, error |-> NoError]

\* No estimate has been asked for.
NoLimits == [memory |-> 0, cpuQuota |-> 0]

EstimateIdle ==
    /\ fileSizes = <<>>
    /\ resourceLimits = NoLimits

DefaultSocket == "/var/run/docker.sock"
NoPath == ""

\* Socket resolution is not looked at: the default socket exists.
SocketIdle ==
    /\ socketCandidate = DefaultSocket
    /\ existingSockets = {DefaultSocket}
    /\ platform = "linux"
    /\ socketPath = NoPath

\* ClaudeCodeAgent executions: two run in the same process.
Executions == {1, 2}
MaxAgentItems == 2
NoEnv == [apiKey |-> "", baseUrl |-> ""]
NoQuery == [running |-> FALSE, apiKey |-> "", baseUrl |-> "", writes |-> 0]

\* anthropicApi credentials: the first execution's, and those a second
\* execution with another configuration may hold (base URL under `baseUrl`,
\* under `url`, or absent).
FirstCredentials == [apiKey |-> "key-A", baseUrl |-> "https://a", url |-> ""]
OtherCredentials ==
    { [apiKey |-> "key-B", baseUrl |-> "https://b", url |-> ""],
      [apiKey |-> "key-B", baseUrl |-> "", url |-> "https://b"],
      [apiKey |-> "key-B", baseUrl |-> "", url |-> ""] }

\* No ClaudeCodeAgent execution is looked at.
AgentIdle ==
    /\ processEnv = NoEnv
    /\ agentCreds = [e \in Executions |-> FirstCredentials]
    /\ agentItems = [e \in Executions |-> 0]
    /\ agentPc = [e \in Executions |-> "done"]
    /\ agentItemIndex = [e \in Executions |-> 0]
    /\ agentData = [e \in Executions |-> <<>>]
    /\ queryEnv = [e \in Executions |-> NoQuery]
    /\ envWrites = <<>>

OutsideIdle == EstimateIdle /\ SocketIdle /\ AgentIdle

\* path.join(os.homedir(), '.colima', 'default', 'docker.sock')
ColimaSocket == "~/.colima/default/docker.sock"
DesktopSocket == "~/.docker/run/docker.sock"
RootlessSocket == "/run/user/1000/docker.sock"
CustomSocket == "/custom/docker.sock"
Platforms == {"darwin", "linux"}

\* The alternate locations detectDockerSocket probes, in order, per platform.
Alternates(plat) ==
    IF plat = "darwin" THEN <<ColimaSocket, DesktopSocket>> ELSE <<RootlessSocket>>

\* The first path of `paths` that exists, or `fallback` when none does.
RECURSIVE Probe(_, _, _)
Probe(paths, existing, fallback) ==
    IF paths = <<>> THEN fallback
    ELSE IF Head(paths) \in existing THEN Head(paths)
    ELSE Probe(Tail(paths), existing, fallback)

\* detectDockerSocket(socketPath): the path itself when it exists, else the
\* first existing alternate, else the path unchanged.
detectDockerSocket(candidate, existing, plat) ==
    IF candidate \in existing
      THEN [path |-> candidate, provenance |-> "configured"]
      ELSE LET found == Probe(Alternates(plat), existing, candidate)
           IN  [path |-> found,
                provenance |-> IF found = candidate THEN "configured"
                                                    ELSE "platform-fallback"]

\* The inline detection of the legacy execute: only the default path is ever
\* replaced, only on darwin, only by the Colima socket.
LegacyDetect(candidate, existing, plat) ==
    IF candidate = DefaultSocket /\ candidate \notin existing
      THEN IF plat = "darwin" /\ ColimaSocket \in existing THEN ColimaSocket ELSE candidate
      ELSE candidate

\* The alternates each entry point knows for a platform.
KnownAlternates(v, plat) ==
    IF v = "legacy" THEN (IF plat = "darwin" THEN <<ColimaSocket>> ELSE <<>>)
    ELSE Alternates(plat)

\* The socket path the entry point goes on with.
ResolveSocketPath ==
    socketPath' = (IF variant = "legacy"
                     THEN LegacyDetect(socketCandidate, existingSockets, platform)
                     ELSE detectDockerSocket(socketCandidate, existingSockets, platform).path)

RunInit ==
    /\ variant \in Variants
    /\ continueOnFail \in BOOLEAN
    /\ nItems \in 1..MaxItems
    /\ itemIndex \in (IF variant = "helper" THEN 0..(nItems - 1) ELSE {0})
    /\ item = NoItem
    /\ pc = "start"
    /\ error = NoError
    /\ returnData = <<>>
    /\ outcome = "running"
    /\ thrown = NoThrown
    /\ tempDir = 0
    /\ volumes = <<>>
    /\ configLimits = NoLimits
    /\ tempDirectories = <<>>
    /\ fsDirs = {}
    /\ nextDir = 1
    /\ releaseLog = <<>>
    /\ pending = {}
    /\ acquiredBy = <<>>
    /\ rmFailed = {}
    /\ containerId = 0
    /\ containers = {}
    /\ nextContainer = 1
    /\ calls = <<>>
    /\ responses = <<>>
    /\ inflight = "none"
    /\ lastCallItem = -1
    /\ created = 0
    /\ statusCode = -1
    /\ frames = <<>>
    /\ logsBuffer = <<>>
    /\ offset = 0
    /\ stdout = <<>>
    /\ stderr = <<>>
    /\ hasOutput = FALSE

Init ==
    /\ OutsideIdle
    /\ RunInit

----------------------------------------------------------------------------
(* Engine transport *)

\* A request sent without awaiting the response of the one before it.
SendUnawaited(op) ==
    /\ inflight' = op
    /\ calls' = Append(calls, op)
    /\ responses' = responses
    /\ lastCallItem' = itemIndex

\* http.request(...).end(): the request leaves; its response is awaited.
SendRequest(op) ==
    /\ inflight = "none"
    /\ inflight' = op
    /\ calls' = Append(calls, op)
    /\ responses' = responses
    /\ lastCallItem' = itemIndex

\* dockerRequest: the promise rejects on an 'error' event and on a non-2xx status.
dockerRequestRejects(rsp) ==
    rsp.err \/ ~(rsp.status >= 200 /\ rsp.status < 300)

\* The pull and logs requests: the promise rejects on an 'error' event only.
rawRequestRejects(rsp) == rsp.err

\* The Error a rejected request carries.
RequestError(rsp) ==
    IF rsp.err THEN [kind |-> "conn", status |-> 0]
    ELSE [kind |-> "api", status |-> rsp.status]

Is2xx(rsp) == ~rsp.err /\ rsp.status >= 200 /\ rsp.status < 300

\* Body of a non-2xx answer: {"message":"x"}
ErrorBody == <<123, 34, 109, 101, 115, 115, 97, 103, 101, 34, 58, 34, 120, 34, 125>>

\* Log streams an exited container may have produced, and how many trailing
\* bytes of the stream are missing from the response.
LogStreams ==
    { <<[tag |-> 1, payload |-> <<7>>], [tag |-> 2, payload |-> <<2, 1>>]>> }
LogCuts == {0, 1, 3}

AlwaysContinue == TRUE

\* this.continueOnFail()
ContinueOnFailPolicy == continueOnFail

\* The per-iteration locals, dropped when the iteration ends.
ResetExecution ==
    /\ item' = NoItem
    /\ error' = NoError
    /\ containerId' = 0
    /\ calls' = <<>>
    /\ responses' = <<>>
    /\ created' = 0
    /\ statusCode' = -1
    /\ frames' = <<>>
    /\ logsBuffer' = <<>>
    /\ offset' = 0
    /\ stdout' = <<>>
    /\ stderr' = <<>>
    /\ hasOutput' = FALSE
    /\ tempDir' = 0
    /\ volumes' = <<>>
    /\ configLimits' = NoLimits

----------------------------------------------------------------------------
(* Legacy RunContainer.execute *)

\* Loop head, parameter reading and the `if (!image)` check.
LegacyItemStart ==
    /\ variant = "legacy"
    /\ pc = "start"
    /\ outcome = "running"
    /\ itemIndex < nItems
    /\ \E image \in Images, envOk \in BOOLEAN :
         /\ item' = [NoItem EXCEPT !.image = image]
         /\ IF ~envOk
              THEN /\ error' = [kind |-> "env", status |-> 0]
                   /\ pc' = "catch"
              ELSE IF image = <<>>
                     THEN /\ error' = [kind |-> "param", status |-> 0]
                          /\ pc' = "catch"
                     ELSE /\ error' = NoError
                          /\ pc' = "pull"
    /\ ResolveSocketPath
    /\ UNCHANGED <<estVars, agentVars, socketCandidate, existingSockets, platform, cfgVars, itemIndex,
                   outVars, dirVars, engVars, statusCode, logVars>>

\* 1. Pull image
runContainerPull ==
    /\ variant = "legacy"
    /\ pc = "pull"
    /\ SendRequest("pull")
    /\ UNCHANGED <<outsideVars, cfgVars, loopVars, pc, error, outVars, dirVars, containerId,
                   containers, nextContainer, created, statusCode, logVars>>

runContainerPullEnd ==
    /\ variant = "legacy"
    /\ inflight = "pull"
    /\ \E rsp \in Responses :
         /\ responses' = Append(responses, rsp)
         /\ IF rawRequestRejects(rsp)
           THEN /\ error' = RequestError(rsp)
                /\ pc' = "catch"
           ELSE /\ error' = error
                /\ pc' = "create"
    /\ inflight' = "none"
    /\ UNCHANGED <<outsideVars, cfgVars, loopVars, outVars, dirVars, containerId, containers,
                   nextContainer, calls, lastCallItem, created, statusCode, logVars>>

\* 2. Create Container
runContainerCreate ==
    /\ variant = "legacy"
    /\ pc = "create"
    /\ SendRequest("create")
    /\ UNCHANGED <<outsideVars, cfgVars, loopVars, pc, error, outVars, dirVars, containerId,
                   containers, nextContainer, created, statusCode, logVars>>

runContainerCreateEnd ==
    /\ variant = "legacy"
    /\ inflight = "create"
    /\ \E rsp \in CreateResponses :
         /\ responses' = Append(responses, rsp)
         /\ IF Is2xx(rsp)
              THEN /\ containers' = containers \cup {nextContainer}
                   /\ nextContainer' = nextContainer + 1
                   /\ created' = created + 1
              ELSE UNCHANGED <<containers, nextContainer, created>>
         /\ IF dockerRequestRejects(rsp)
              THEN /\ error' = RequestError(rsp)
                   /\ pc' = "catch"
                   /\ containerId' = containerId
              ELSE /\ error' = error
                   /\ pc' = "startc"
                   /\ containerId' = nextContainer
    /\ inflight' = "none"
    /\ UNCHANGED <<outsideVars, cfgVars, loopVars, outVars, dirVars, calls, lastCallItem,
                   statusCode, logVars>>

\* 3. Start Container
runContainerStart ==
    /\ variant = "legacy"
    /\ pc = "startc"
    /\ SendRequest("start")
    /\ UNCHANGED <<outsideVars, cfgVars, loopVars, pc, error, outVars, dirVars, containerId,
                   containers, nextContainer, created, statusCode, logVars>>

runContainerStartEnd ==
    /\ variant = "legacy"
    /\ inflight = "start"
    /\ \E rsp \in Responses :
         /\ responses' = Append(responses, rsp)
         /\ IF dockerRequestRejects(rsp)
           THEN /\ error' = RequestError(rsp)
                /\ pc' = "catch"
           ELSE /\ error' = error
                /\ pc' = "wait"
    /\ inflight' = "none"
    /\ UNCHANGED <<outsideVars, cfgVars, loopVars, outVars, dirVars, containerId, containers,
                   nextContainer, calls, lastCallItem, created, statusCode, logVars>>

\* 4. Wait for Container
runContainerWait ==
    /\ variant = "legacy"
    /\ pc = "wait"
    /\ SendRequest("wait")
    /\ UNCHANGED <<outsideVars, cfgVars, loopVars, pc, error, outVars, dirVars, containerId,
                   containers, nextContainer, created, statusCode, logVars>>

runContainerWaitEnd ==
    /\ variant = "legacy"
    /\ inflight = "wait"
    /\ \E rsp \in Responses, code \in ExitCodes :
         /\ responses' = Append(responses, rsp)
         /\ IF dockerRequestRejects(rsp)
           THEN /\ error' = RequestError(rsp)
                /\ pc' = "catch"
                /\ statusCode' = statusCode
           ELSE /\ error' = error
                /\ pc' = "logs"
                /\ statusCode' = code
    /\ inflight' = "none"
    /\ UNCHANGED <<outsideVars, cfgVars, loopVars, outVars, dirVars, containerId, containers,
                   nextContainer, calls, lastCallItem, created, logVars>>

\* The body the logs endpoint delivers: the stream `fs` less `cut` trailing bytes
\* on a 2xx answer, the engine's error body otherwise.
LogsBody(rsp, fs, cut) ==
    IF Is2xx(rsp)
      THEN LET full == EncodeFrames(fs)
           IN  SubSeq(full, 1, Len(full) - cut)
      ELSE ErrorBody

\* 5. Get Logs
runContainerLogs ==
    /\ variant = "legacy"
    /\ pc = "logs"
    /\ SendRequest("logs")
    /\ UNCHANGED <<outsideVars, cfgVars, loopVars, pc, error, outVars, dirVars, containerId,
                   containers, nextContainer, created, statusCode, logVars>>

runContainerLogsEnd ==
    /\ variant = "legacy"
    /\ inflight = "logs"
    /\ \E rsp \in Responses, fs \in LogStreams, cut \in LogCuts :
         /\ responses' = Append(responses, rsp)
         /\ cut <= Len(EncodeFrames(fs))
         /\ IF rawRequestRejects(rsp)
              THEN /\ error' = RequestError(rsp)
                   /\ pc' = "catch"
                   /\ UNCHANGED logVars
              ELSE /\ error' = error
                   /\ pc' = "parse"
                   /\ frames' = (IF Is2xx(rsp) THEN fs ELSE <<>>)
                   /\ logsBuffer' = LogsBody(rsp, fs, cut)
                   /\ offset' = 0
                   /\ stdout' = <<>>
                   /\ stderr' = <<>>
                   /\ hasOutput' = hasOutput
    /\ inflight' = "none"
    /\ UNCHANGED <<outsideVars, cfgVars, loopVars, outVars, dirVars, containerId, containers,
                   nextContainer, calls, lastCallItem, created, statusCode>>

\* One iteration of the demultiplexing loop.  readUInt32BE raises a RangeError
\* when fewer than 8 bytes remain at `offset`.
DemuxStep ==
    /\ pc = "parse"
    /\ offset < Len(logsBuffer)
    /\ IF offset + 8 > Len(logsBuffer)
         THEN /\ error' = [kind |-> "range", status |-> 0]
              /\ pc' = "catch"
              /\ UNCHANGED <<offset, stdout, stderr>>
         ELSE LET type == logsBuffer[offset + 1]
                  size == readUInt32BE(logsBuffer, offset + 4)
                  content == slice(logsBuffer, offset + 8, offset + 8 + size)
              IN  /\ stdout' = (IF type = 1 THEN stdout \o content ELSE stdout)
                  /\ stderr' = (IF type = 2 THEN stderr \o content ELSE stderr)
                  /\ offset' = offset + 8 + size
                  /\ UNCHANGED <<pc, error>>
    /\ UNCHANGED <<outsideVars, cfgVars, loopVars, outVars, dirVars, engVars, statusCode, frames,
                   logsBuffer, hasOutput>>

\* The loop condition fails: parsing is over.
DemuxEnd ==
    /\ pc = "parse"
    /\ ~(offset < Len(logsBuffer))
    /\ pc' = "remove"
    /\ UNCHANGED <<outsideVars, cfgVars, loopVars, error, outVars, dirVars, engVars, statusCode,
                   logVars>>

\* 6. Remove Container
runContainerRemove ==
    /\ variant = "legacy"
    /\ pc = "remove"
    /\ SendRequest("remove")
    /\ UNCHANGED <<outsideVars, cfgVars, loopVars, pc, error, outVars, dirVars, containerId,
                   containers, nextContainer, created, statusCode, logVars>>

runContainerRemoveEnd ==
    /\ variant = "legacy"
    /\ inflight = "remove"
    /\ \E rsp \in Responses :
         /\ responses' = Append(responses, rsp)
         /\ containers' = (IF Is2xx(rsp) THEN containers \ {containerId} ELSE containers)
         /\ IF dockerRequestRejects(rsp)
              THEN /\ error' = RequestError(rsp)
                   /\ pc' = "catch"
              ELSE /\ error' = error
                   /\ pc' = "push"
    /\ inflight' = "none"
    /\ UNCHANGED <<outsideVars, cfgVars, loopVars, outVars, dirVars, containerId, nextContainer,
                   calls, lastCallItem, created, statusCode, logVars>>

\* returnData.push({json: {stdout, stderr, exitCode}, pairedItem})
LegacyPush ==
    /\ variant = "legacy"
    /\ pc = "push"
    /\ returnData' = Append(returnData,
           [pairedItem |-> itemIndex, stdout |-> stdout, stderr |-> stderr,
            exitCode |-> statusCode])
    /\ itemIndex' = itemIndex + 1
    /\ pc' = "start"
    /\ ResetExecution
    /\ UNCHANGED <<outsideVars, cfgVars, outcome, thrown, tempDirectories, fsDirs, nextDir,
                   releaseLog, pending, acquiredBy, rmFailed, containers, nextContainer,
                   inflight, lastCallItem>>

\* catch (error): a record under continueOnFail, a NodeOperationError otherwise.
LegacyCatch ==
    /\ variant = "legacy"
    /\ pc = "catch"
    /\ IF ContinueOnFailPolicy
         THEN /\ returnData' = Append(returnData,
                     [pairedItem |-> itemIndex, error |-> error])
              /\ itemIndex' = itemIndex + 1
              /\ pc' = "start"
              /\ ResetExecution
              /\ UNCHANGED <<outcome, thrown>>
         ELSE /\ thrown' = [itemIndex |-> itemIndex, error |-> error]
              /\ outcome' = "thrown"
              /\ returnData' = returnData
              /\ pc' = "done"
              /\ UNCHANGED <<itemIndex, item, error, tempDir, volumes, configLimits, containerId, calls,
                             responses, created, statusCode, logVars>>
    /\ UNCHANGED <<outsideVars, cfgVars, tempDirectories, fsDirs, nextDir, releaseLog, pending,
                   acquiredBy, rmFailed, containers, nextContainer, inflight,
                   lastCallItem>>

\* return [returnData]
LegacyReturn ==
    /\ variant = "legacy"
    /\ pc = "start"
    /\ outcome = "running"
    /\ itemIndex >= nItems
    /\ outcome' = "returned"
    /\ pc' = "done"
    /\ UNCHANGED <<outsideVars, cfgVars, loopVars, error, returnData, thrown, dirVars, engVars,
                   statusCode, logVars>>

LegacyNext ==
    \/ LegacyItemStart
    \/ runContainerPull \/ runContainerPullEnd
    \/ runContainerCreate \/ runContainerCreateEnd
    \/ runContainerStart \/ runContainerStartEnd
    \/ runContainerWait \/ runContainerWaitEnd
    \/ runContainerLogs \/ runContainerLogsEnd
    \/ DemuxStep \/ DemuxEnd
    \/ runContainerRemove \/ runContainerRemoveEnd
    \/ LegacyPush \/ LegacyCatch \/ LegacyReturn

----------------------------------------------------------------------------
(* Helpers of the current RunContainer node *)

LowerChars == {"a", "l", "p"}

\* validateDockerImageName: non-empty, lowercase repository characters only.
validateDockerImageName(image) ==
    LET errors == (IF Len(image) = 0 THEN {"empty"} ELSE {})
                  \cup (IF \E i \in 1..Len(image) : image[i] \notin LowerChars
                          THEN {"grammar"} ELSE {})
    IN  [valid |-> errors = {}, errors |-> errors]

\* isDockerConnectionError
isDockerConnectionError(e) == e.kind = "conn"

\* formatDockerError(error, category, hint)
formatDockerError(e, category) ==
    [category |-> category, cause |-> [kind |-> e.kind, status |-> e.status]]

AlwaysExecutionMessage(e) == formatDockerError(e, "container execution")

\* The remediation message built by the catch blocks.
ErrorMessage(e) ==
    IF isDockerConnectionError(e)
      THEN formatDockerError(e, "connection")
      ELSE formatDockerError(e, "container execution")

\* Socket detection, parameter reading, image validation (and, in the node,
\* environment processing) at the head of the try block.
ReadAndValidate(withEnv) ==
    \E image \in Images, envOk \in BOOLEAN, bin \in BOOLEAN, bout \in BOOLEAN,
       m \in 0..MaxMappings :
         /\ withEnv \/ envOk
         /\ bin \/ m = 0
         /\ item' = [image |-> image, binaryDataInput |-> bin,
                     binaryDataOutput |-> bout, mappings |-> m]
         /\ IF ~validateDockerImageName(image).valid
              THEN /\ error' = [kind |-> "invalid", status |-> 0]
                   /\ pc' = "catch"
              ELSE IF ~envOk
                     THEN /\ error' = [kind |-> "env", status |-> 0]
                          /\ pc' = "catch"
                     ELSE /\ error' = NoError
                          /\ pc' = "stage"

NodeItemStart ==
    /\ variant = "node"
    /\ pc = "start"
    /\ outcome = "running"
    /\ itemIndex < nItems
    /\ ReadAndValidate(TRUE)
    /\ ResolveSocketPath
    /\ UNCHANGED <<estVars, agentVars, socketCandidate, existingSockets, platform, cfgVars, itemIndex,
                   outVars, dirVars, engVars, statusCode, logVars>>

HelperStart ==
    /\ variant = "helper"
    /\ pc = "start"
    /\ outcome = "running"
    /\ ReadAndValidate(FALSE)
    /\ ResolveSocketPath
    /\ UNCHANGED <<estVars, agentVars, socketCandidate, existingSockets, platform, cfgVars, itemIndex,
                   outVars, dirVars, engVars, statusCode, logVars>>

Modern == variant \in {"node", "helper"}

\* A failed staging step releases the directory it had created; the removal is
\* best effort.
StagingGivesBack(dir, rmOk) ==
    /\ fsDirs' = (IF rmOk THEN fsDirs ELSE fsDirs \cup {dir})
    /\ rmFailed' = (IF rmOk THEN rmFailed ELSE rmFailed \cup {dir})
    /\ releaseLog' = Append(releaseLog, dir)

StagingFailureIgnored == "exec"

\* An exception raised while staging leaves the try block for its catch clause.
StagingFailureGoesTo == "catch"

\* The mount points prepareBinaryInput returns: one (hostPath, containerPath)
\* pair per mapping, the host file inside the staging directory.
MountPoints(dir, n) ==
    [k \in 1..n |-> [hostPath |-> [dir |-> dir, sub |-> "input", file |-> k],
                     containerPath |-> [path |-> "mapped", file |-> k]]]

\* `${hostPath}:${containerPath}:${mode}`
Bind(hostPath, containerPath, mode) ==
    [hostPath |-> hostPath, containerPath |-> containerPath, mode |-> mode]

ReadWriteInput(mp) == Bind(mp.hostPath, mp.containerPath, "rw")

\* (mp) => `${mp.hostPath}:${mp.containerPath}:ro`
ReadOnlyInput(mp) == Bind(mp.hostPath, mp.containerPath, "ro")

\* `${tempDir}/output:/output:rw`
OutputBind(dir) ==
    Bind([dir |-> dir, sub |-> "output", file |-> 0], [path |-> "/output", file |-> 0], "rw")

\* calculateResourceLimits: floor, ceiling and slope of the estimate.
MemoryFloor == 512
MemoryCeiling == 4096
MemoryPerUnit == 4
CpuFloor == 1000
CpuCeiling == 4000
CpuPerUnit == 10

RECURSIVE Sum(_)
Sum(sizes) == IF sizes = <<>> THEN 0 ELSE Head(sizes) + Sum(Tail(sizes))

Clamp(lo, hi, x) == IF x < lo THEN lo ELSE IF x > hi THEN hi ELSE x

\* The estimate without its ceiling.
UnclampedLimits(sizes) ==
    [memory |-> MemoryFloor + MemoryPerUnit * Sum(sizes),
     cpuQuota |-> CpuFloor + CpuPerUnit * Sum(sizes)]

calculateResourceLimits(sizes) ==
    [memory |-> Clamp(MemoryFloor, MemoryCeiling, MemoryFloor + MemoryPerUnit * Sum(sizes)),
     cpuQuota |-> Clamp(CpuFloor, CpuCeiling, CpuFloor + CpuPerUnit * Sum(sizes))]

\* preparedBinary.fileSizes: the size of each staged file, one per mapping.
StagedSizes(n) == [k \in 1..n |-> 100 * k]

\* A configuration left without memory limit and CPU quota.
NoConfigLimits(sizes) == NoLimits

\* containerConfig.memory = resourceLimits.memory;
\* containerConfig.cpuQuota = resourceLimits.cpuQuota
ConfigLimits(sizes) == calculateResourceLimits(sizes)

\* prepareBinaryInput: a fresh temporary directory receives one file per mapping.
\* A payload that cannot be read (mapping number failAt) fails the whole step:
\* the mount points made so far are lost with the exception and the directory is
\* given back (removal is best effort).  failAt = 0: every mapping was staged.
PrepareBinaryInput ==
    /\ Modern
    /\ pc = "stage"
    /\ item.binaryDataInput /\ item.mappings > 0
    /\ \E failAt \in 0..item.mappings, rmOk \in BOOLEAN :
         /\ failAt = 0 => rmOk
         /\ nextDir' = nextDir + 1
         /\ acquiredBy' = Append(acquiredBy, itemIndex)
         /\ IF failAt = 0
              THEN /\ tempDir' = nextDir
                   /\ tempDirectories' = Append(tempDirectories, nextDir)
                   /\ volumes' = [k \in 1..item.mappings |->
                                     ReadOnlyInput(MountPoints(nextDir, item.mappings)[k])]
                   /\ configLimits' = (IF item.binaryDataOutput THEN configLimits
                                       ELSE ConfigLimits(StagedSizes(item.mappings)))
                   /\ fsDirs' = fsDirs \cup {nextDir}
                   /\ UNCHANGED <<releaseLog, rmFailed>>
                   /\ error' = error
                   /\ pc' = (IF item.binaryDataOutput THEN "outdir" ELSE "exec")
              ELSE /\ UNCHANGED <<tempDir, volumes, configLimits, tempDirectories>>
                   /\ StagingGivesBack(nextDir, rmOk)
                   /\ error' = [kind |-> "staging", status |-> 0, mapping |-> failAt]
                   /\ pc' = StagingFailureGoesTo
    /\ UNCHANGED <<outsideVars, cfgVars, loopVars, outVars, pending, engVars, statusCode, logVars>>

\* Binary output without input: fs.mkdtemp, tempDirectories.push(tempDir)
MakeOutputTempDir ==
    /\ Modern
    /\ pc = "stage"
    /\ ~item.binaryDataInput /\ item.binaryDataOutput
    /\ \E made \in BOOLEAN :
         IF made
           THEN /\ tempDir' = nextDir
                /\ tempDirectories' = Append(tempDirectories, nextDir)
                /\ volumes' = volumes
                /\ configLimits' = configLimits
                /\ fsDirs' = fsDirs \cup {nextDir}
                /\ nextDir' = nextDir + 1
                /\ acquiredBy' = Append(acquiredBy, itemIndex)
                /\ error' = error
                /\ pc' = "outdir"
           ELSE /\ UNCHANGED <<tempDir, volumes, configLimits, tempDirectories, fsDirs, nextDir,
                                acquiredBy>>
                /\ error' = [kind |-> "staging", status |-> 0]
                /\ pc' = StagingFailureGoesTo
    /\ UNCHANGED <<outsideVars, cfgVars, loopVars, outVars, releaseLog, pending, rmFailed, engVars,
                   statusCode, logVars>>

\* createOutputDirectory(tempDir), then the read-write output bind is added.
CreateOutputDirectory ==
    /\ Modern
    /\ pc = "outdir"
    /\ \E made \in BOOLEAN :
         IF made
           THEN /\ error' = error
                /\ volumes' = Append(volumes, OutputBind(tempDir))
                /\ configLimits' = (IF item.binaryDataInput
                                      THEN ConfigLimits(StagedSizes(item.mappings))
                                      ELSE configLimits)
                /\ pc' = "exec"
           ELSE /\ error' = [kind |-> "staging", status |-> 0]
                /\ volumes' = volumes
                /\ configLimits' = configLimits
                /\ pc' = StagingFailureGoesTo
    /\ UNCHANGED <<outsideVars, cfgVars, loopVars, outVars, tempDir, tempDirectories, fsDirs, nextDir,
                   releaseLog, pending, acquiredBy, rmFailed, engVars, statusCode,
                   logVars>>

\* Neither branch of the staging conditional applies.
NoStaging ==
    /\ Modern
    /\ pc = "stage"
    /\ \/ item.binaryDataInput /\ item.mappings = 0
       \/ ~item.binaryDataInput /\ ~item.binaryDataOutput
    /\ pc' = "exec"
    /\ UNCHANGED <<outsideVars, cfgVars, loopVars, error, outVars, dirVars, engVars, statusCode,
                   logVars>>

----------------------------------------------------------------------------
(* executeContainer (ContainerHelpers): pull policy 'missing', teardown after *)
(* any failure that follows creation, removal failures swallowed.            *)

\* A harvest that is run whenever binary output is enabled.
OutputRequested == item.binaryDataOutput

\* if (binaryDataOutput && tempDir): the item has an output directory.
Harvests == item.binaryDataOutput /\ tempDir # 0

\* LogDemultiplexer: complete frames only; a truncated trailing frame is dropped.
RECURSIVE DemuxComplete(_, _, _)
DemuxComplete(buf, at, acc) ==
    IF at + 8 > Len(buf) THEN acc
    ELSE LET type == buf[at + 1]
             size == readUInt32BE(buf, at + 4)
         IN  IF at + 8 + size > Len(buf) THEN acc
             ELSE LET content == slice(buf, at + 8, at + 8 + size)
                      next == [out |-> IF type = 1 THEN acc.out \o content ELSE acc.out,
                               err |-> IF type = 2 THEN acc.err \o content ELSE acc.err]
                  IN  DemuxComplete(buf, at + 8 + size, next)

ecSend(step, op) ==
    /\ Modern
    /\ pc = step
    /\ SendRequest(op)
    /\ UNCHANGED <<outsideVars, cfgVars, loopVars, pc, error, outVars, dirVars, containerId,
                   containers, nextContainer, created, statusCode, logVars>>

\* Entry: under 'missing' the image is assumed present and create is tried first.
executeContainer ==
    /\ Modern
    /\ pc = "exec"
    /\ pc' = "ec_create"
    /\ UNCHANGED <<outsideVars, cfgVars, loopVars, error, outVars, dirVars, engVars, statusCode,
                   logVars>>

ecCreate == ecSend("ec_create", "create")

ecCreateEnd ==
    /\ Modern
    /\ inflight = "create"
    /\ \E rsp \in CreateResponses :
         /\ responses' = Append(responses, rsp)
         /\ IF Is2xx(rsp)
           THEN /\ containers' = containers \cup {nextContainer}
                /\ nextContainer' = nextContainer + 1
                /\ created' = created + 1
                /\ containerId' = nextContainer
                /\ error' = error
                /\ pc' = "ec_start"
           ELSE /\ UNCHANGED <<containers, nextContainer, created, containerId>>
                /\ IF ~rsp.err /\ rsp.status = 404 /\ \A i \in 1..Len(calls) : calls[i] # "pull"
                     THEN /\ error' = error
                          /\ pc' = "ec_pull"
                     ELSE /\ error' = RequestError(rsp)
                          /\ pc' = "catch"
    /\ inflight' = "none"
    /\ UNCHANGED <<outsideVars, cfgVars, loopVars, outVars, dirVars, calls, lastCallItem,
                   statusCode, logVars>>

ecPull == ecSend("ec_pull", "pull")

ecPullEnd ==
    /\ Modern
    /\ inflight = "pull"
    /\ \E rsp \in Responses :
         /\ responses' = Append(responses, rsp)
         /\ IF Is2xx(rsp)
           THEN /\ error' = error
                /\ pc' = "ec_create"
           ELSE /\ error' = RequestError(rsp)
                /\ pc' = "catch"
    /\ inflight' = "none"
    /\ UNCHANGED <<outsideVars, cfgVars, loopVars, outVars, dirVars, containerId, containers,
                   nextContainer, calls, lastCallItem, created, statusCode, logVars>>

ecStart == ecSend("ec_start", "start")

ecStartEnd ==
    /\ Modern
    /\ inflight = "start"
    /\ \E rsp \in Responses :
         /\ responses' = Append(responses, rsp)
         /\ IF Is2xx(rsp)
           THEN /\ error' = error
                /\ pc' = "ec_wait"
           ELSE /\ error' = RequestError(rsp)
                /\ pc' = "ec_remove"
    /\ inflight' = "none"
    /\ UNCHANGED <<outsideVars, cfgVars, loopVars, outVars, dirVars, containerId, containers,
                   nextContainer, calls, lastCallItem, created, statusCode, logVars>>

ecWait == ecSend("ec_wait", "wait")

ecWaitEnd ==
    /\ Modern
    /\ inflight = "wait"
    /\ \E rsp \in Responses, code \in ExitCodes :
         /\ responses' = Append(responses, rsp)
         /\ IF Is2xx(rsp)
           THEN /\ error' = error
                /\ pc' = "ec_logs"
                /\ statusCode' = code
           ELSE /\ error' = RequestError(rsp)
                /\ pc' = "ec_remove"
                /\ statusCode' = statusCode
    /\ inflight' = "none"
    /\ UNCHANGED <<outsideVars, cfgVars, loopVars, outVars, dirVars, containerId, containers,
                   nextContainer, calls, lastCallItem, created, logVars>>

ecLogs == ecSend("ec_logs", "logs")

\* The logs arrive whole and are decoded; the result's hasOutput flag tells
\* whether the container left files in its output directory.
ecLogsEnd ==
    /\ Modern
    /\ inflight = "logs"
    /\ \E rsp \in Responses, fs \in LogStreams, flag \in BOOLEAN :
         /\ responses' = Append(responses, rsp)
         /\ flag => (Is2xx(rsp) /\ Harvests)
         /\ IF Is2xx(rsp)
              THEN LET body == LogsBody(rsp, fs, 0)
                       dec == DemuxComplete(body, 0, [out |-> <<>>, err |-> <<>>])
                   IN  /\ error' = error
                       /\ frames' = fs
                       /\ logsBuffer' = body
                       /\ offset' = Len(body)
                       /\ stdout' = dec.out
                       /\ stderr' = dec.err
                       /\ hasOutput' = flag
              ELSE /\ error' = RequestError(rsp)
                   /\ UNCHANGED logVars
    /\ pc' = "ec_remove"
    /\ inflight' = "none"
    /\ UNCHANGED <<outsideVars, cfgVars, loopVars, outVars, dirVars, containerId, containers,
                   nextContainer, calls, lastCallItem, created, statusCode>>

ecRemove == ecSend("ec_remove", "remove")

ecRemoveEnd ==
    /\ Modern
    /\ inflight = "remove"
    /\ \E rsp \in Responses :
         /\ responses' = Append(responses, rsp)
         /\ containers' = (IF Is2xx(rsp) THEN containers \ {containerId} ELSE containers)
    /\ pc' = (IF error = NoError THEN "collect" ELSE "catch")
    /\ inflight' = "none"
    /\ UNCHANGED <<outsideVars, cfgVars, loopVars, error, outVars, dirVars, containerId,
                   nextContainer, calls, lastCallItem, created, statusCode, logVars>>

----------------------------------------------------------------------------
(* Result, error handling and cleanup of the current node and of the helper *)

\* executionData, with outputFilesCount when files were harvested.
ExecutionData(files) ==
    LET base == [pairedItem |-> itemIndex, stdout |-> stdout, stderr |-> stderr,
                 exitCode |-> statusCode, success |-> (statusCode = 0),
                 hasOutput |-> hasOutput]
    IN  IF files > 0
          THEN [f \in DOMAIN base \cup {"outputFilesCount"} |->
                   IF f = "outputFilesCount" THEN files ELSE base[f]]
          ELSE base

\* The record pushed for a failed item under continueOnFail.
ErrorRecord(e) ==
    [pairedItem |-> itemIndex, error |-> ErrorMessage(e), success |-> FALSE,
     exitCode |-> -1, stdout |-> <<>>, stderr |-> ErrorMessage(e)]

\* Harvest outcomes: the number of matching files, or -1 when reading fails.
HarvestOutcomes == {-1, 0, 1}

NoPositions == {}

\* Only the first tracked directory is handed to the release.
FirstPositionOnly == IF tempDirectories = <<>> THEN {} ELSE {1}

\* Positions of tempDirectories handed to Promise.allSettled.
AllPositions == 1..Len(tempDirectories)

\* Build the result, harvest the output files, returnData.push(executionData).
NodePush ==
    /\ variant = "node"
    /\ pc = "collect"
    /\ \E h \in HarvestOutcomes :
         /\ Harvests \/ h = 0
         /\ h > 0 => hasOutput
         /\ IF h < 0
              THEN /\ error' = [kind |-> "harvest", status |-> 0]
                   /\ pc' = "catch"
                   /\ UNCHANGED <<returnData, itemIndex, item, tempDir, volumes, configLimits, containerId,
                                  calls, responses, created, statusCode, logVars>>
              ELSE /\ returnData' = Append(returnData, ExecutionData(h))
                   /\ itemIndex' = itemIndex + 1
                   /\ pc' = "start"
                   /\ ResetExecution
    /\ UNCHANGED <<outsideVars, cfgVars, outcome, thrown, tempDirectories, fsDirs, nextDir,
                   releaseLog, pending, acquiredBy, rmFailed, containers, nextContainer,
                   inflight, lastCallItem>>

\* Build the result, harvest the output files, return executionData.
HelperResult ==
    /\ variant = "helper"
    /\ pc = "collect"
    /\ \E h \in HarvestOutcomes :
         /\ Harvests \/ h = 0
         /\ h > 0 => hasOutput
         /\ IF h < 0
              THEN /\ error' = [kind |-> "harvest", status |-> 0]
                   /\ pc' = "catch"
                   /\ UNCHANGED <<returnData, outcome, pending, item, tempDir, volumes, configLimits,
                                  containerId, calls, responses, created, statusCode,
                                  logVars>>
              ELSE /\ returnData' = Append(returnData, ExecutionData(h))
                   /\ outcome' = "returning"
                   /\ pending' = AllPositions
                   /\ pc' = "cleanup"
                   /\ ResetExecution
    /\ UNCHANGED <<outsideVars, cfgVars, itemIndex, thrown, tempDirectories, fsDirs, nextDir,
                   releaseLog, acquiredBy, rmFailed, containers, nextContainer,
                   inflight, lastCallItem>>

\* catch (error) of the node: an error record, or a NodeOperationError.  Either
\* way the iteration's locals are gone afterwards.
NodeCatch ==
    /\ variant = "node"
    /\ pc = "catch"
    /\ IF ContinueOnFailPolicy
         THEN /\ returnData' = Append(returnData, ErrorRecord(error))
              /\ itemIndex' = itemIndex + 1
              /\ pc' = "start"
              /\ UNCHANGED <<outcome, thrown, pending>>
         ELSE /\ thrown' = [itemIndex |-> itemIndex, error |-> ErrorMessage(error)]
              /\ outcome' = "throwing"
              /\ pending' = AllPositions
              /\ pc' = "cleanup"
              /\ UNCHANGED <<returnData, itemIndex>>
    /\ ResetExecution
    /\ UNCHANGED <<outsideVars, cfgVars, tempDirectories, fsDirs, nextDir, releaseLog, acquiredBy,
                   rmFailed, containers, nextContainer, inflight, lastCallItem>>

\* catch (error) of the helper: always rethrown as a NodeOperationError.
HelperCatch ==
    /\ variant = "helper"
    /\ pc = "catch"
    /\ thrown' = [itemIndex |-> itemIndex, error |-> ErrorMessage(error)]
    /\ outcome' = "throwing"
    /\ pending' = AllPositions
    /\ pc' = "cleanup"
    /\ ResetExecution
    /\ UNCHANGED <<outsideVars, cfgVars, itemIndex, returnData, tempDirectories, fsDirs, nextDir,
                   releaseLog, acquiredBy, rmFailed, containers, nextContainer,
                   inflight, lastCallItem>>

\* return [returnData] of the node.
NodeReturn ==
    /\ variant = "node"
    /\ pc = "start"
    /\ outcome = "running"
    /\ itemIndex >= nItems
    /\ outcome' = "returning"
    /\ pending' = AllPositions
    /\ pc' = "cleanup"
    /\ UNCHANGED <<outsideVars, cfgVars, loopVars, error, returnData, thrown, tempDir, volumes, configLimits,
                   tempDirectories, fsDirs, nextDir, releaseLog, acquiredBy, rmFailed,
                   engVars,
                   statusCode, logVars>>

\* cleanupTempDirectory(dir): recursive removal, a failure is swallowed.
cleanupTempDirectory(dir, rmOk) ==
    /\ releaseLog' = Append(releaseLog, dir)
    /\ fsDirs' = (IF rmOk THEN fsDirs \ {dir} ELSE fsDirs)
    /\ rmFailed' = (IF rmOk THEN rmFailed ELSE rmFailed \cup {dir})

\* finally: tempDirectories.map(...) calls cleanupTempDirectory for each entry in
\* array order; the removals touch distinct directories and each may fail.
CleanupOne ==
    /\ Modern
    /\ pc = "cleanup"
    /\ pending # {}
    /\ LET i == CHOOSE j \in pending : \A k \in pending : j <= k
       IN  /\ \E rmOk \in BOOLEAN : cleanupTempDirectory(tempDirectories[i], rmOk)
           /\ pending' = pending \ {i}
    /\ UNCHANGED <<outsideVars, cfgVars, loopVars, pc, error, outVars, tempDir, volumes, configLimits, tempDirectories,
                   nextDir, acquiredBy, engVars, statusCode, logVars>>

\* A finally block whose awaited promise rejects when a removal failed.
RejectingCompletion(o) ==
    IF rmFailed # {} THEN "thrown" ELSE IF o = "throwing" THEN "thrown" ELSE "returned"

\* A finally block after which the pending return or throw never takes effect.
PendingCompletion(o) == o

\* Promise.allSettled never rejects: the finally block completes normally and
\* the pending return or throw of the try/catch takes effect.
FinallyCompletion(o) == IF o = "throwing" THEN "thrown" ELSE "returned"

\* Promise.allSettled resolves; the entry point settles.
CleanupDone ==
    /\ Modern
    /\ pc = "cleanup"
    /\ pending = {}
    /\ outcome' = FinallyCompletion(outcome)
    /\ pc' = "done"
    /\ UNCHANGED <<outsideVars, cfgVars, loopVars, error, returnData, thrown, dirVars, engVars,
                   statusCode, logVars>>

ModernNext ==
    \/ NodeItemStart \/ HelperStart
    \/ PrepareBinaryInput \/ MakeOutputTempDir \/ CreateOutputDirectory \/ NoStaging
    \/ executeContainer
    \/ ecCreate \/ ecCreateEnd \/ ecPull \/ ecPullEnd
    \/ ecStart \/ ecStartEnd \/ ecWait \/ ecWaitEnd
    \/ ecLogs \/ ecLogsEnd \/ ecRemove \/ ecRemoveEnd
    \/ NodePush \/ HelperResult \/ NodeCatch \/ HelperCatch \/ NodeReturn
    \/ CleanupOne \/ CleanupDone

Next == LegacyNext \/ ModernNext

Spec == Init /\ [][Next]_vars

\* One item under a responsive engine and a running event loop: every
\* continuation that is ready is eventually run, and every request that is in
\* flight is eventually answered.
LiveInit ==
    /\ Init
    /\ nItems = 1

LiveSpec == LiveInit /\ [][Next]_vars /\ WF_vars(Next)

----------------------------------------------------------------------------
(* ResourceLimitEstimator: calculateResourceLimits(fileSizes), a pure       *)
(* function of the total staged input size, clamped between a floor and a   *)
(* ceiling.  Sizes are counted in MiB, memory in MiB, CPU quota in units of *)
(* one thousandth of a core.                                                *)

\* Sizes of single staged files: empty, small, a size that reaches the ceiling
\* on its own, and a very large one.
HugeFile == 1000000
FileSizes == {0, 1, 100, 900, HugeFile}
MaxFiles == 3

\* const resourceLimits = calculateResourceLimits(preparedBinary.fileSizes)
\* for the files staged so far plus one more.
EstimateStep ==
    /\ Len(fileSizes) < MaxFiles
    /\ \E size \in FileSizes :
         /\ fileSizes' = Append(fileSizes, size)
         /\ resourceLimits' = calculateResourceLimits(fileSizes')
    /\ UNCHANGED <<runVars, sockVars, agentVars>>

EstimateInit ==
    /\ Init
    /\ variant = "helper"
    /\ ~continueOnFail
    /\ nItems = 1

EstimateNext == EstimateStep

EstimateSpec == EstimateInit /\ [][EstimateNext]_vars

----------------------------------------------------------------------------
(* Socket resolution on its own: every candidate path, every set of         *)
(* existing sockets, both platforms, each entry point.                      *)

SocketPaths == {DefaultSocket, ColimaSocket, DesktopSocket, RootlessSocket, CustomSocket}

SocketInit ==
    /\ RunInit
    /\ ~continueOnFail
    /\ nItems = 1
    /\ itemIndex = 0
    /\ EstimateIdle
    /\ AgentIdle
    /\ socketCandidate \in {DefaultSocket, ColimaSocket, CustomSocket}
    /\ existingSockets \in SUBSET SocketPaths
    /\ platform \in Platforms
    /\ socketPath = NoPath

\* The detection at the head of the try block, taken alone.
ResolveSocket ==
    /\ socketPath = NoPath
    /\ ResolveSocketPath
    /\ UNCHANGED <<runVars, estVars, agentVars, socketCandidate, existingSockets, platform>>

SocketNext == ResolveSocket

SocketSpec == SocketInit /\ [][SocketNext]_vars

----------------------------------------------------------------------------
(* ClaudeCodeAgent.execute (src/unnamed/part_001): two executions of the    *)
(* node in one process.  An execution yields the event loop at each await:  *)
(* while its credentials are fetched and while it reads the messages of a   *)
(* query; what lies between two awaits runs without interruption.           *)

\* A first write wins: a variable already set is left alone.
KeepExistingEnv(env, credentials) ==
    [apiKey |-> IF env.apiKey # "" THEN env.apiKey
                ELSE IF credentials.apiKey # "" THEN credentials.apiKey ELSE env.apiKey,
     baseUrl |-> IF env.baseUrl # "" THEN env.baseUrl
                 ELSE IF credentials.baseUrl # "" THEN credentials.baseUrl
                 ELSE IF credentials.url # "" THEN credentials.url ELSE env.baseUrl]

\* process.env.ANTHROPIC_API_KEY = ...; process.env.ANTHROPIC_BASE_URL = ...
WriteCredentials(env, credentials) ==
    [apiKey |-> IF credentials.apiKey # "" THEN credentials.apiKey ELSE env.apiKey,
     baseUrl |-> IF credentials.baseUrl # "" THEN credentials.baseUrl
                 ELSE IF credentials.url # "" THEN credentials.url ELSE env.baseUrl]

\* query({...}): the SDK starts under the environment of the process as it is
\* at this moment.
StartQuery(env, writes) ==
    [running |-> TRUE, apiKey |-> env.apiKey, baseUrl |-> env.baseUrl, writes |-> writes]

\* The loop head after the statement sequence that ends at the next await:
\* another item starts its query, or the loop is over and execute returns.
AgentLoop(e, env, index, writes) ==
    IF index < agentItems[e]
      THEN /\ queryEnv' = [queryEnv EXCEPT ![e] = StartQuery(env, writes)]
           /\ agentPc' = [agentPc EXCEPT ![e] = "streaming"]
      ELSE /\ queryEnv' = [queryEnv EXCEPT ![e] = NoQuery]
           /\ agentPc' = [agentPc EXCEPT ![e] = "returned"]

\* await this.getCredentials(...) resolves: the credentials are written to
\* process.env and the first item's query is started.
AgentCredentials(e) ==
    /\ agentPc[e] = "credentials"
    /\ processEnv' = WriteCredentials(processEnv, agentCreds[e])
    /\ envWrites' = Append(envWrites, e)
    /\ AgentLoop(e, processEnv', 0, Len(envWrites'))
    /\ UNCHANGED <<runVars, estVars, sockVars, agentCreds, agentItems, agentItemIndex,
                   agentData>>

\* The generator of the running query ends, with a result or with a failure;
\* the record is pushed (or the error thrown) and the loop goes on.
AgentQueryEnd(e) ==
    /\ agentPc[e] = "streaming"
    /\ \E result \in {"success", "error"} :
         IF result = "error" /\ ~continueOnFail
           THEN /\ agentPc' = [agentPc EXCEPT ![e] = "thrown"]
                /\ queryEnv' = [queryEnv EXCEPT ![e] = NoQuery]
                /\ UNCHANGED <<agentItemIndex, agentData>>
           ELSE /\ agentData' = [agentData EXCEPT ![e] = Append(@, result)]
                /\ agentItemIndex' = [agentItemIndex EXCEPT ![e] = @ + 1]
                /\ AgentLoop(e, processEnv, agentItemIndex[e] + 1, Len(envWrites))
    /\ UNCHANGED <<runVars, estVars, sockVars, processEnv, agentCreds, agentItems,
                   envWrites>>

AgentInit ==
    /\ RunInit
    /\ variant = "node"
    /\ nItems = 1
    /\ EstimateIdle
    /\ SocketIdle
    /\ processEnv = NoEnv
    /\ agentCreds \in [Executions -> {FirstCredentials} \cup OtherCredentials]
    /\ agentCreds[1] = FirstCredentials
    /\ agentCreds[2] \in OtherCredentials
    /\ agentItems \in [Executions -> 1..MaxAgentItems]
    /\ agentPc = [e \in Executions |-> "credentials"]
    /\ agentItemIndex = [e \in Executions |-> 0]
    /\ agentData = [e \in Executions |-> <<>>]
    /\ queryEnv = [e \in Executions |-> NoQuery]
    /\ envWrites = <<>>

AgentNext == \E e \in Executions : AgentCredentials(e) \/ AgentQueryEnd(e)

AgentSpec == AgentInit /\ [][AgentNext]_vars

----------------------------------------------------------------------------
(* The demultiplexer on its own: runContainer just after the logs response, *)
(* for every stream of up to MaxFrames complete stdout/stderr frames.       *)

DemuxInit ==
    /\ OutsideIdle
    /\ variant = "legacy"
    /\ continueOnFail = FALSE
    /\ nItems = 1
    /\ itemIndex = 0
    /\ item = [NoItem EXCEPT !.image = <<"a", "l", "p">>]
    /\ pc = "parse"
    /\ error = NoError
    /\ returnData = <<>>
    /\ outcome = "running"
    /\ thrown = NoThrown
    /\ tempDir = 0
    /\ volumes = <<>>
    /\ configLimits = NoLimits
    /\ tempDirectories = <<>>
    /\ fsDirs = {}
    /\ nextDir = 1
    /\ releaseLog = <<>>
    /\ pending = {}
    /\ acquiredBy = <<>>
    /\ rmFailed = {}
    /\ containerId = 1
    /\ containers = {1}
    /\ nextContainer = 2
    /\ calls = <<"pull", "create", "start", "wait", "logs">>
    /\ responses = [i \in 1..5 |-> [err |-> FALSE, status |-> 200]]
    /\ inflight = "none"
    /\ lastCallItem = 0
    /\ created = 1
    /\ statusCode \in ExitCodes
    /\ frames \in SeqsUpTo(DataFrames, MaxFrames)
    /\ logsBuffer = EncodeFrames(frames)
    /\ offset = 0
    /\ stdout = <<>>
    /\ stderr = <<>>
    /\ hasOutput = FALSE

DemuxNext == DemuxStep \/ DemuxEnd

DemuxSpec == DemuxInit /\ [][DemuxNext]_vars

\* The demultiplexing loop on any logs body: frames with any tag from 0 to 3,
\* the body possibly cut short of trailing bytes.  The loop is synchronous code:
\* an iteration that can run does run.
FramingInit ==
    /\ OutsideIdle
    /\ variant = "legacy"
    /\ continueOnFail = FALSE
    /\ nItems = 1
    /\ itemIndex = 0
    /\ item = [NoItem EXCEPT !.image = <<"a", "l", "p">>]
    /\ pc = "parse"
    /\ error = NoError
    /\ returnData = <<>>
    /\ outcome = "running"
    /\ thrown = NoThrown
    /\ tempDir = 0
    /\ volumes = <<>>
    /\ configLimits = NoLimits
    /\ tempDirectories = <<>>
    /\ fsDirs = {}
    /\ nextDir = 1
    /\ releaseLog = <<>>
    /\ pending = {}
    /\ acquiredBy = <<>>
    /\ rmFailed = {}
    /\ containerId = 1
    /\ containers = {1}
    /\ nextContainer = 2
    /\ calls = <<"pull", "create", "start", "wait", "logs">>
    /\ responses = [i \in 1..5 |-> [err |-> FALSE, status |-> 200]]
    /\ inflight = "none"
    /\ lastCallItem = 0
    /\ created = 1
    /\ statusCode = 0
    /\ frames \in SeqsUpTo([tag : 0..3, payload : Payloads], MaxFrames)
    /\ \E cut \in LogCuts :
           /\ cut <= Len(EncodeFrames(frames))
           /\ logsBuffer = SubSeq(EncodeFrames(frames), 1, Len(EncodeFrames(frames)) - cut)
    /\ offset = 0
    /\ stdout = <<>>
    /\ stderr = <<>>
    /\ hasOutput = FALSE

FramingSpec == FramingInit /\ [][DemuxNext]_vars /\ WF_vars(DemuxNext)

----------------------------------------------------------------------------
(* Vocabulary of the properties *)

Range(seq) == {seq[i] : i \in 1..Len(seq)}

Issued(op) == \E i \in 1..Len(calls) : calls[i] = op

Answered(op) == \E i \in 1..Len(responses) : calls[i] = op

Failed(op) == \E i \in 1..Len(responses) : calls[i] = op /\ ~Is2xx(responses[i])

FailureOf(op) ==
    RequestError(responses[CHOOSE i \in 1..Len(responses) :
                               calls[i] = op /\ ~Is2xx(responses[i])])

\* Every directory mkdtemp has handed out.
AcquiredDirs == 1..(nextDir - 1)

\* The entry point has settled (returned or thrown, cleanup included).
Settled == pc = "done"

\* What the caller receives.
Output == IF outcome = "returned" THEN returnData ELSE <<>>

\* An item is being processed.
InItem == pc \notin {"start", "cleanup", "done"}

IsErrorRecord(r) == "error" \in DOMAIN r

----------------------------------------------------------------------------
(* C1 *)

----------------------------------------------------------------------------
(* C2 *)

\* C2: under continueOnFail the batch is never aborted: each failed item yields
\* exactly one record carrying the error and a non-zero sentinel exit code, the
\* loop goes on, and the output holds one record per item, in order, paired
\* with its index.
C2_ContinueOnFail ==
    (continueOnFail /\ variant \in {"node", "legacy"}) =>
        /\ outcome \notin {"throwing", "thrown"}
        /\ pc = "start" => Len(returnData) = itemIndex
        /\ \A i \in 1..Len(returnData) : returnData[i].pairedItem = i - 1
        /\ \A i \in 1..Len(returnData) :
               IsErrorRecord(returnData[i]) =>
                   /\ "exitCode" \in DOMAIN returnData[i]
                   /\ returnData[i].exitCode # 0
        /\ outcome = "returned" => Len(Output) = nItems

----------------------------------------------------------------------------
(* C3 *)

\* C3: without continueOnFail the first failing item aborts the batch: the
\* error carries that item's index, every earlier item produced a result and
\* none an error record, no engine call belongs to a later item, the caller
\* receives no records, and the release of every directory acquired so far
\* has been invoked.
C3_FailFast ==
    ~continueOnFail =>
        /\ \A i \in 1..Len(returnData) : ~IsErrorRecord(returnData[i])
        /\ (Settled /\ outcome = "thrown") =>
               /\ thrown.itemIndex = itemIndex
               /\ variant # "helper" => Len(returnData) = thrown.itemIndex
               /\ lastCallItem <= thrown.itemIndex
               /\ Output = <<>>
               /\ \A d \in AcquiredDirs : d \in Range(releaseLog)

\* The first of two items fails at the engine after acquiring a directory.
C3_Witness ==
    /\ Settled
    /\ outcome = "thrown"
    /\ ~continueOnFail
    /\ variant = "node"
    /\ nItems = 2
    /\ thrown.itemIndex = 0
    /\ Len(tempDirectories) = 1
    /\ thrown.error.cause.kind = "api"

----------------------------------------------------------------------------
(* C4 *)

\* C4: an item whose image reference is empty or fails validation never causes
\* an engine call and never acquires a temporary directory; it fails before
\* any network call.
C4_NoEngineCallForInvalidImage ==
    (InItem /\ ~validateDockerImageName(item.image).valid) =>
        /\ calls = <<>>
        /\ inflight = "none"
        /\ tempDir = 0
        /\ \A d \in AcquiredDirs : acquiredBy[d] # itemIndex
        /\ pc = "catch"
        /\ error # NoError

----------------------------------------------------------------------------
(* C5 - C9: teardown in runContainer *)

\* runContainer has returned to execute, with its result or with an error.
RunContainerLeft == pc \in {"push", "catch"} \/ outcome = "thrown"

\* C5: whatever exit code the wait step returned, runContainer issues the
\* remove call for its container, and the container is gone from the engine
\* when the result is returned.
C5_RemoveWhateverExitCode ==
    variant = "legacy" =>
        /\ (RunContainerLeft /\ statusCode >= 0) => Issued("remove")
        /\ pc = "push" => containerId \notin containers

\* C6: once wait and logs have succeeded, a failing remove call does not turn
\* into the execution's error: the collected result is still returned.
C6_RemoveFailureNotEscalated ==
    (variant = "legacy" /\ Failed("remove")) =>
        /\ error = NoError
        /\ pc = "push"

\* C7: when wait or logs fails after the container was started, the remove
\* call is issued before the error reaches the caller, and the error is that
\* of the failed wait or logs call.
C7_RemoveBeforePropagation ==
    (variant = "legacy" /\ RunContainerLeft /\ error # NoError) =>
        /\ Failed("wait") => (Issued("remove") /\ error = FailureOf("wait"))
        /\ Failed("logs") => (Issued("remove") /\ error = FailureOf("logs"))

\* C8: when start fails after create succeeded, the container is removed
\* before the error surfaces; no container is left in the engine.
C8_OrphanRemoved ==
    (variant = "legacy" /\ RunContainerLeft /\ Failed("start")) =>
        /\ Issued("remove")
        /\ containerId \notin containers

\* C9: a failed pull, by connection error or by non-2xx answer, fails the
\* execution; no create call follows and no container exists for it.
C9_PullFailureFatal ==
    (variant = "legacy" /\ Failed("pull")) =>
        /\ ~Issued("create")
        /\ created = 0
        /\ error # NoError

----------------------------------------------------------------------------
(* C10 *)

\* C10: for every sequence of complete stdout/stderr frames, demultiplexing
\* its encoding raises no error and yields the tag-1 payloads concatenated in
\* order as stdout and the tag-2 payloads concatenated in order as stderr.
C10_RoundTrip ==
    /\ pc # "catch"
    /\ pc = "remove" =>
           /\ stdout = PayloadsOf(frames, 1)
           /\ stderr = PayloadsOf(frames, 2)

\* A stderr frame whose length needs two length bytes, then a stdout frame.
C10_Witness ==
    /\ pc = "remove"
    /\ Len(frames) = 2
    /\ frames[1].tag = 2 /\ frames[1].payload = LongPayload
    /\ frames[2].tag = 1 /\ frames[2].payload = <<2, 1>>
    /\ stdout = <<2, 1>>
    /\ stderr = LongPayload

----------------------------------------------------------------------------
(* C11 *)

\* The longest prefix of the frames `fs` whose encoding fits in `n` bytes: the
\* frames that arrived complete.
RECURSIVE CompleteFrames(_, _)
CompleteFrames(fs, n) ==
    IF fs = <<>> \/ Len(EncodeFrame(Head(fs))) > n THEN <<>>
    ELSE <<Head(fs)>> \o CompleteFrames(Tail(fs), n - Len(EncodeFrame(Head(fs))))

\* The logs response was a 2xx body that ends inside a frame.
TruncatedLogs ==
    /\ frames # <<>>
    /\ Len(logsBuffer) < Len(EncodeFrames(frames))

\* C11: demultiplexing a log buffer whose last frame is truncated (fewer than
\* 8 header bytes left, or a payload shorter than declared) raises no error,
\* and once decoding is over stdout and stderr hold exactly the payloads of
\* the frames that arrived complete.
C11_TruncatedFrameDropped ==
    TruncatedLogs =>
        /\ error.kind # "range"
        /\ pc \in {"remove", "ec_remove"} =>
               /\ stdout = PayloadsOf(CompleteFrames(frames, Len(logsBuffer)), 1)
               /\ stderr = PayloadsOf(CompleteFrames(frames, Len(logsBuffer)), 2)

----------------------------------------------------------------------------
(* C12 *)

\* The latest engine response, when no request is in flight and the item that
\* sent the request is still being executed.
LastResponse == responses[Len(responses)]
JustAnswered ==
    /\ InItem
    /\ inflight = "none"
    /\ responses # <<>>
    /\ Len(responses) = Len(calls)
    /\ lastCallItem = itemIndex

\* C12: in runContainer, a non-2xx answer to any lifecycle request (pull,
\* create, start, wait, logs, remove) fails that step with an error carrying
\* the status code, and its body is never handed to the log decoder.
C12_Non2xxFailsStep ==
    (variant = "legacy" /\ JustAnswered /\ ~LastResponse.err /\ ~Is2xx(LastResponse)) =>
        /\ error = [kind |-> "api", status |-> LastResponse.status]
        /\ pc = "catch"
        /\ logsBuffer # ErrorBody

----------------------------------------------------------------------------
(* C13 *)

\* The messages execute has reported so far: in error records and in the
\* NodeOperationError it throws.
ReportedErrors ==
    {returnData[i].error : i \in {j \in 1..Len(returnData) : IsErrorRecord(returnData[j])}}
    \cup (IF outcome \in {"throwing", "thrown"} THEN {thrown.error} ELSE {})

\* A request of the item other than the final removal failed to connect.
ConnectionFailed ==
    \E i \in 1..Len(responses) : calls[i] # "remove" /\ responses[i].err

----------------------------------------------------------------------------
(* C14 *)

\* What the caller of execute observes.
CallerView == <<returnData, thrown>>

\* C14: a failed release of one temporary directory neither prevents the
\* release of any other directory from being attempted nor changes what execute
\* hands to its caller: during the finally block the records and the pending
\* error stay as they were, a pending return is returned and a pending throw
\* is thrown, whatever the removals did.
C14_CleanupFailureIsolated ==
    /\ [](Settled => \A i \in 1..Len(tempDirectories) :
                         tempDirectories[i] \in Range(releaseLog))
    /\ [][pc = "cleanup" =>
             /\ CallerView' = CallerView
             /\ pc' = "done" => outcome' = (IF outcome = "throwing" THEN "thrown"
                                                                    ELSE "returned")]_vars

\* Two items each staged a directory; the first removal failed, the second
\* directory is gone, and both result records were returned.
C14_Witness ==
    /\ Settled
    /\ outcome = "returned"
    /\ Len(tempDirectories) = 2
    /\ tempDirectories[1] \in rmFailed /\ tempDirectories[1] \in fsDirs
    /\ tempDirectories[2] \notin fsDirs
    /\ tempDirectories[2] \in Range(releaseLog)
    /\ Len(returnData) = 2
    /\ \A i \in 1..2 : ~IsErrorRecord(returnData[i])

----------------------------------------------------------------------------
(* C15 *)

\* The directories created on behalf of the item being executed.
DirsOfItem == {d \in AcquiredDirs : acquiredBy[d] = itemIndex}

----------------------------------------------------------------------------
(* C16 *)

\* The container configuration of the current item has been submitted.
ConfigSubmitted == Modern /\ Issued("create")

\* C16: in every container configuration submitted to the engine, each staged
\* input mapping appears as a bind with access mode ro, at most one bind has
\* access mode rw, and that bind is the execution's own <tempDir>/output
\* directory mounted at /output.
C16_MountModes ==
    ConfigSubmitted =>
        /\ \A k \in 1..(IF item.binaryDataInput THEN item.mappings ELSE 0) :
               \E i \in 1..Len(volumes) :
                   volumes[i] = Bind(MountPoints(tempDir, item.mappings)[k].hostPath,
                                     MountPoints(tempDir, item.mappings)[k].containerPath,
                                     "ro")
        /\ \A i \in 1..Len(volumes) :
               /\ volumes[i].mode \in {"ro", "rw"}
               /\ volumes[i].mode = "rw" => volumes[i] = OutputBind(tempDir)
        /\ Cardinality({i \in 1..Len(volumes) : volumes[i].mode = "rw"}) <= 1

\* Two staged inputs and the output directory: two ro binds and one rw bind.
C16_Witness ==
    /\ ConfigSubmitted
    /\ item.mappings = 2 /\ item.binaryDataOutput
    /\ Len(volumes) = 3
    /\ volumes[1].mode = "ro" /\ volumes[2].mode = "ro"
    /\ volumes[3] = OutputBind(tempDir)

----------------------------------------------------------------------------
(* C17 *)

\* The record the step has just appended to returnData.
NewRecord == returnData'[Len(returnData')]

\* The harvest of the current item ran, raised nothing and matched no file:
\* a record without outputFilesCount is appended.
EmptyHarvest ==
    /\ Modern
    /\ pc = "collect"
    /\ Harvests
    /\ Len(returnData') = Len(returnData) + 1
    /\ "outputFilesCount" \notin DOMAIN NewRecord

\* C17: when binary output is enabled and no file of the output directory
\* matches the pattern, the harvest raises nothing and the item yields a
\* result record (not an error record) without outputFilesCount whose
\* hasOutput is false.
C17_EmptyHarvest ==
    [][EmptyHarvest => (~IsErrorRecord(NewRecord) /\ NewRecord.hasOutput = FALSE)]_vars

----------------------------------------------------------------------------
(* C18 *)

InRange(limits) ==
    /\ limits.memory >= MemoryFloor /\ limits.memory <= MemoryCeiling
    /\ limits.cpuQuota >= CpuFloor /\ limits.cpuQuota <= CpuCeiling

----------------------------------------------------------------------------
(* C19 *)

\* Positions of the entry point's alternates that exist.
ExistingAlternates ==
    {i \in 1..Len(KnownAlternates(variant, platform)) :
        KnownAlternates(variant, platform)[i] \in existingSockets}

\* C19: socket resolution always yields a path: the candidate itself when it
\* exists; otherwise, whatever the candidate is, the first existing path of
\* the fixed ordered list of alternates; the candidate unchanged when none of
\* them exists.
C19_SocketResolution ==
    socketPath # NoPath =>
        IF socketCandidate \in existingSockets THEN socketPath = socketCandidate
        ELSE IF ExistingAlternates = {} THEN socketPath = socketCandidate
        ELSE \E i \in ExistingAlternates :
                 /\ \A j \in ExistingAlternates : i <= j
                 /\ socketPath = KnownAlternates(variant, platform)[i]

----------------------------------------------------------------------------
(* C20 *)

\* C20: the credentials are published through the one environment of the
\* process: every SDK query starts under the API key of whichever execution
\* wrote the environment last before it started, so a query of one execution
\* that starts after an overlapping execution's write runs with that other
\* execution's key.
C20_QueryUsesLastWriter ==
    \A e \in Executions :
        queryEnv[e].running =>
            /\ queryEnv[e].writes >= 1
            /\ queryEnv[e].apiKey = agentCreds[envWrites[queryEnv[e].writes]].apiKey

\* Both executions are in their loops, and the first one's query for its second
\* item runs while the environment holds the second execution's API key and
\* base URL.
C20_Witness ==
    /\ agentPc[1] = "streaming" /\ agentPc[2] = "streaming"
    /\ agentItemIndex[1] = 1
    /\ agentCreds[2].apiKey # agentCreds[1].apiKey
    /\ queryEnv[1].running
    /\ queryEnv[1].apiKey = agentCreds[2].apiKey
    /\ queryEnv[1].baseUrl = "https://b"

----------------------------------------------------------------------------
(* C21 *)

\* The lifecycle of runContainer, in statement order.
LifecycleOrder == <<"pull", "create", "start", "wait", "logs", "remove">>

----------------------------------------------------------------------------
(* C22 *)

\* C22: the release of a temporary directory is never invoked twice, and once
\* the entry point has settled, by whatever path (validation, staging, engine
\* or harvest failure, or success), it has been invoked exactly once for each
\* directory that was acquired.
C22_ReleasedExactlyOnce ==
    LET Releases(d) == Cardinality({i \in 1..Len(releaseLog) : releaseLog[i] = d})
    IN  /\ \A d \in AcquiredDirs : Releases(d) <= 1
        /\ Settled => \A d \in AcquiredDirs : Releases(d) = 1

\* One batch: the first item failed while staging, the second failed at the
\* harvest; each of the two directories was released once.
C22_Witness ==
    /\ Settled
    /\ variant = "node"
    /\ AcquiredDirs = {1, 2}
    /\ Len(releaseLog) = 2 /\ Range(releaseLog) = {1, 2}
    /\ Len(returnData) = 2
    /\ IsErrorRecord(returnData[1]) /\ returnData[1].error.cause.kind = "staging"
    /\ IsErrorRecord(returnData[2]) /\ returnData[2].error.cause.kind = "harvest"

----------------------------------------------------------------------------
(* C23 *)

\* C23: a staging context does not outlive its item: while the batch is being
\* processed, every temporary directory acquired for an item before the current
\* one is gone from the filesystem (unless its removal was tried and failed), so
\* item i's directory is removed before item i+1 begins.
C23_ContextEndsWithItem ==
    outcome = "running" =>
        \A d \in AcquiredDirs :
            (acquiredBy[d] < itemIndex /\ d \in fsDirs) => d \in rmFailed

----------------------------------------------------------------------------
(* C24 *)

----------------------------------------------------------------------------
(* C25 *)

\* C25: when the engine answers every request, the execution eventually
\* settles, with a result or with an error, and the current node runs its
\* cleanup on the way.  The wait step has no client-side timeout: while the
\* wait call is unanswered the execution has not settled and has issued no
\* logs or remove call, and the only step it can take is the receipt of the
\* answer.
C25_SettlesUnlessWaitHangs ==
    /\ <>Settled
    /\ [](Settled => outcome \in {"returned", "thrown"})
    /\ Modern => <>(pc = "cleanup" /\ outcome \in {"returning", "throwing"})
    /\ [](inflight = "wait" => (~Settled /\ ~Issued("logs") /\ ~Issued("remove")))
    /\ [][inflight = "wait" =>
              /\ inflight' = "none"
              /\ Len(responses') = Len(responses) + 1]_vars

\* The wait call is in flight: nothing but its answer can happen.
C25_Witness ==
    /\ inflight = "wait"
    /\ ~ENABLED (Next /\ inflight' = "wait")
    /\ pc \in {"wait", "ec_wait"}
    /\ ~Settled

----------------------------------------------------------------------------
(* C26 *)

\* C26: the container configuration submitted to the engine carries a memory
\* limit and a CPU quota exactly when binary input staging occurred for the
\* item (binary input enabled with at least one mapping), and then they are
\* the estimate for the staged files; in every other case, output-only
\* executions included, both are unset.
C26_LimitsIffInputStaged ==
    LET inputStaged == item.binaryDataInput /\ item.mappings > 0
    IN  ConfigSubmitted =>
            /\ configLimits.memory # NoLimits.memory <=> inputStaged
            /\ configLimits.cpuQuota # NoLimits.cpuQuota <=> inputStaged
            /\ inputStaged =>
                   configLimits = calculateResourceLimits(StagedSizes(item.mappings))
            /\ ~inputStaged => configLimits = NoLimits

\* Two inputs and an output directory: the configuration submitted carries the
\* estimate for the two staged files.
C26_Witness ==
    /\ ConfigSubmitted
    /\ item.mappings = 2 /\ item.binaryDataOutput
    /\ configLimits = calculateResourceLimits(<<100, 200>>)
    /\ configLimits.memory > 0 /\ configLimits.cpuQuota > 0

----------------------------------------------------------------------------
(* C27 *)

\* collectBinaryOutput is called for the current item.
HarvestStep ==
    /\ Modern
    /\ pc = "collect"
    /\ Harvests
    /\ pc' # "collect"

\* C27: the harvest of an item runs only after its container execution has
\* returned (wait was answered with an exit code, no request is in flight, no
\* error was raised) and while the item's temporary directory exists and has
\* not been handed to the release; once the item has an error, the harvest is
\* never reached.
C27_HarvestAfterExitBeforeRelease ==
    /\ [][HarvestStep =>
              /\ error = NoError
              /\ inflight = "none" /\ Len(responses) = Len(calls)
              /\ Answered("wait") /\ statusCode \in ExitCodes
              /\ tempDir \in fsDirs
              /\ tempDir \notin Range(releaseLog)]_vars
    /\ [][(Modern /\ InItem /\ error # NoError) => pc' # "collect"]_vars
    /\ [](Modern /\ pc = "collect" => error = NoError)

\* A file was harvested for the item, and its directory was released
\* afterwards, in the finally block.
C27_Witness ==
    /\ Settled
    /\ variant = "node"
    /\ Len(returnData) = 1
    /\ "outputFilesCount" \in DOMAIN returnData[1]
    /\ returnData[1].outputFilesCount = 1
    /\ returnData[1].exitCode = 0
    /\ Len(tempDirectories) = 1
    /\ releaseLog = tempDirectories

----------------------------------------------------------------------------
(* C28 *)

\* C28: on every logs body the demultiplexing loop ends, by its loop condition
\* or by an exception.  The offset is always the beginning of a frame of the
\* stream (frame k + 1 begins where the encoding of the first k frames ends):
\* an iteration at frame k moves it by 8 plus that frame's declared payload
\* length, whatever the frame's tag; an iteration over a frame whose tag is
\* neither 1 nor 2 leaves stdout and stderr as they were; and when the body is
\* complete the result is the tag-1 and tag-2 payloads in order, the frames
\* behind a skipped one included.
C28_DemuxTerminates ==
    /\ <>(pc # "parse")
    /\ [](\E k \in 0..Len(frames) : offset = Len(EncodeFrames(SubSeq(frames, 1, k))))
    /\ [][(pc = "parse" /\ offset' # offset) =>
              \E k \in 1..Len(frames) :
                  /\ offset = Len(EncodeFrames(SubSeq(frames, 1, k - 1)))
                  /\ offset' = offset + 8 + Len(frames[k].payload)
                  /\ offset' = Len(EncodeFrames(SubSeq(frames, 1, k)))
                  /\ frames[k].tag \notin {1, 2} =>
                         (stdout' = stdout /\ stderr' = stderr)]_vars
    /\ []((pc = "remove" /\ logsBuffer = EncodeFrames(frames)) =>
              /\ stdout = PayloadsOf(frames, 1)
              /\ stderr = PayloadsOf(frames, 2))

\* A frame with tag 3 and a payload of LongLen bytes was skipped, and the
\* stdout frame behind it was decoded.
C28_Witness ==
    /\ pc = "remove"
    /\ Len(frames) = 2
    /\ frames[1].tag = 3 /\ frames[1].payload = LongPayload
    /\ frames[2].tag = 1 /\ frames[2].payload = <<2, 1>>
    /\ stdout = <<2, 1>>
    /\ stderr = <<>>
    /\ offset = Len(logsBuffer)

----------------------------------------------------------------------------
(* C29 *)

\* C29: whenever binary output is enabled for an item, whatever the
\* binary-input flag and the mapping list are, the configuration submitted to
\* the engine has the read-write bind of the item's output directory at
\* /output, and when the container execution has returned the harvest is run.
C29_OutputMountedAndHarvested ==
    /\ (ConfigSubmitted /\ item.binaryDataOutput) =>
           /\ tempDir # 0
           /\ \E i \in 1..Len(volumes) : volumes[i] = OutputBind(tempDir)
    /\ (Modern /\ pc = "collect" /\ item.binaryDataOutput) => Harvests

====
